---------------------------- MODULE Spec2Model ----------------------------
(***************************************************************************)
(* A model of mrlib (bbengfort/mapreduce): the reducer and combiner        *)
(* classes of mrlib/statistics.py and mrlib/identity.py, driven by one      *)
(* map/combine/reduce job over the values of a single key.                  *)
(*                                                                         *)
(* Numbers.  The raw values are Python ints (unbounded, exact).  A Python   *)
(* float produced by a division is represented by the exact rational it     *)
(* rounds, a reduced fraction [num, den] with den > 0; math.sqrt(x) is      *)
(* represented by its radicand, [sqrt |-> x] (sqrt is injective on the      *)
(* non-negative rationals), and is zero exactly when the radicand is.       *)
(*                                                                         *)
(* Values of the selection classes are tagged, because the same call may    *)
(* see ints and lists: [d |-> 0, v |-> i] is the int i, [d |-> 1, v |-> s]  *)
(* is the list whose elements are the items of the sequence s.              *)
(*                                                                         *)
(* A call of a class yields zero or more (key, value) pairs or raises: it   *)
(* is modelled as [err |-> name of the exception or "none", emits |-> the   *)
(* sequence of pairs yielded before it ended].                              *)
(***************************************************************************)
EXTENDS Integers, Sequences, FiniteSets

\* ------------------------------------------------------------------ bounds
\* longest sequence of raw values of the key
MaxLen == 3
\* the n of NLargest*/NSmallest* is drawn from 1 .. MaxN
MaxN == 2
\* most partial results waiting for the reducer at one time
MaxParts == 3

\* most values passed to a reducer called on its own
MaxArgs == 2

\* the raw values of the scalar classes
Vals == { 0 - 1, 0, 1 }
\* raw tuples of SumsReducer: arities one to three
TupleVals == { <<1>>, <<1, 2>>, <<2, 1>>, <<0, 1, 2>> }
Keys == { "k1", "k2" }
Aggs == { "sum", "sums", "nlargest", "nsmallest", "mean", "stats", "identity" }
Selections == { "nlargest", "nsmallest" }
\* self.key of the selection classes: None, or the builtin abs
KeyFns == { "None", "abs" }

SeqsUpTo(S, n) == UNION { [1 .. m -> S] : m \in 0 .. n }

\* ------------------------------------------------------- Python builtins
Min2(a, b) == IF a <= b THEN a ELSE b
Max2(a, b) == IF a >= b THEN a ELSE b
Abs(a) == IF a < 0 THEN 0 - a ELSE a

RECURSIVE Gcd(_, _)
Gcd(a, b) == IF b = 0 THEN a ELSE Gcd(b, a % b)

\* the float a / b (b # 0), as the reduced fraction it rounds
Frac(a, b) ==
    LET s == IF b < 0 THEN 0 - 1 ELSE 1
        g == Gcd(Abs(a), Abs(b))
    IN  [num |-> (s * a) \div g, den |-> (s * b) \div g]

\* sum(values): the left fold from 0
RECURSIVE PySum(_)
PySum(values) ==
    IF values = << >> THEN 0
    ELSE PySum(SubSeq(values, 1, Len(values) - 1)) + values[Len(values)]

\* min(values) and max(values) of a non-empty sequence of ints
RECURSIVE PyMin(_)
PyMin(values) ==
    IF Len(values) = 1 THEN values[1]
    ELSE Min2(PyMin(SubSeq(values, 1, Len(values) - 1)), values[Len(values)])

RECURSIVE PyMax(_)
PyMax(values) ==
    IF Len(values) = 1 THEN values[1]
    ELSE Max2(PyMax(SubSeq(values, 1, Len(values) - 1)), values[Len(values)])

\* izip(*values): the columns of the rows, as many as the shortest row has
\* (none when there is no row)
ShortestLen(values) ==
    IF values = << >> THEN 0
    ELSE PyMin([i \in 1 .. Len(values) |-> Len(values[i])])

Izip(values) ==
    [c \in 1 .. ShortestLen(values) |-> [i \in 1 .. Len(values) |-> values[i][c]]]

Ok(key, value) == [err |-> "none", emits |-> << <<key, value>> >>]
Silent == [err |-> "none", emits |-> << >>]
Raise(e) == [err |-> e, emits |-> << >>]

\* ------------------------------------------------------ SumReducer, SumsReducer
\* mutant: counts the values instead of adding them
SumReducerCount(key, values) == Ok(key, Len(values))

SumReducer(key, values) == Ok(key, PySum(values))

\* line 64 reads "yield key(, tuple(...))", which does not compile; it is
\* taken as the "yield (key, tuple(...))" of the other classes
SumsReducer(key, values) ==
    LET columns == Izip(values)
    IN  Ok(key, [c \in 1 .. Len(columns) |-> PySum(columns[c])])

\* ------------------------------------------------- items and their ordering
I(i) == [d |-> 0, v |-> i]
L(s) == [d |-> 1, v |-> s]
Ints(s) == [i \in 1 .. Len(s) |-> I(s[i])]

\* a < b as Python 2 orders objects: ints by value, an int before any list,
\* lists lexicographically
RECURSIVE PyLess(_, _)
PyLess(a, b) ==
    IF a.d = 0 /\ b.d = 0 THEN a.v < b.v
    ELSE IF a.d = 0 THEN TRUE
    ELSE IF b.d = 0 THEN FALSE
    ELSE IF b.v = << >> THEN FALSE
    ELSE IF a.v = << >> THEN TRUE
    ELSE IF PyLess(a.v[1], b.v[1]) THEN TRUE
    ELSE IF PyLess(b.v[1], a.v[1]) THEN FALSE
    ELSE PyLess(L(Tail(a.v)), L(Tail(b.v)))

\* self.key applied to one element; abs of a list raises TypeError
KeyRaises(kf, x) == kf = "abs" /\ x.d # 0
KeyOf(kf, x) == IF kf = "abs" THEN I(Abs(x.v)) ELSE x

\* sorted(items, key=kf, reverse=True): stable, equal keys keep their order
RECURSIVE SortedDesc(_, _)
SortedDesc(items, kf) ==
    IF items = << >> THEN << >>
    ELSE LET front == SortedDesc(SubSeq(items, 1, Len(items) - 1), kf)
             x == items[Len(items)]
             below == { i \in 1 .. Len(front) : PyLess(KeyOf(kf, front[i]), KeyOf(kf, x)) }
             at == IF below = { } THEN Len(front) + 1
                   ELSE CHOOSE i \in below : \A j \in below : i <= j
         IN  SubSeq(front, 1, at - 1) \o <<x>> \o SubSeq(front, at, Len(front))

\* sorted(items, key=kf): stable
RECURSIVE SortedAsc(_, _)
SortedAsc(items, kf) ==
    IF items = << >> THEN << >>
    ELSE LET front == SortedAsc(SubSeq(items, 1, Len(items) - 1), kf)
             x == items[Len(items)]
             above == { i \in 1 .. Len(front) : PyLess(KeyOf(kf, x), KeyOf(kf, front[i])) }
             at == IF above = { } THEN Len(front) + 1
                   ELSE CHOOSE i \in above : \A j \in above : i <= j
         IN  SubSeq(front, 1, at - 1) \o <<x>> \o SubSeq(front, at, Len(front))

\* heapq.nlargest(n, items, key=kf) == sorted(items, key=kf, reverse=True)[:n]
Nlargest(n, items, kf) == SubSeq(SortedDesc(items, kf), 1, Min2(n, Len(items)))

\* heapq.nsmallest(n, items, key=kf) == sorted(items, key=kf)[:n]
Nsmallest(n, items, kf) == SubSeq(SortedAsc(items, kf), 1, Min2(n, Len(items)))

\* chain(*values): the elements of each value in turn; an int is not iterable
ChainRaises(values) == \E i \in 1 .. Len(values) : values[i].d = 0

RECURSIVE Chain(_)
Chain(values) ==
    IF values = << >> THEN << >>
    ELSE Chain(SubSeq(values, 1, Len(values) - 1)) \o values[Len(values)].v

AnyKeyRaises(kf, items) == \E i \in 1 .. Len(items) : KeyRaises(kf, items[i])

\* ------------------------------------------------------- selection classes
\* mutant: the values are ranked as they come, without chain(*values)
NLargestReducerNoChain(n, kf, key, values) ==
    IF AnyKeyRaises(kf, values) THEN Raise("TypeError")
    ELSE Ok(key, L(Nlargest(n, values, kf)))

NLargestReducer(n, kf, key, values) ==
    IF ChainRaises(values) THEN Raise("TypeError")
    ELSE IF AnyKeyRaises(kf, Chain(values)) THEN Raise("TypeError")
    ELSE Ok(key, L(Nlargest(n, Chain(values), kf)))

\* mutant: ranks the values and keeps them all
NLargestCombinerNoBound(n, kf, key, values) ==
    IF AnyKeyRaises(kf, values) THEN Raise("TypeError")
    ELSE Ok(key, L(SortedDesc(values, kf)))

NLargestCombiner(n, kf, key, values) ==
    IF AnyKeyRaises(kf, values) THEN Raise("TypeError")
    ELSE Ok(key, L(Nlargest(n, values, kf)))

NSmallestReducer(n, kf, key, values) ==
    IF ChainRaises(values) THEN Raise("TypeError")
    ELSE IF AnyKeyRaises(kf, Chain(values)) THEN Raise("TypeError")
    ELSE Ok(key, L(Nsmallest(n, Chain(values), kf)))

NSmallestCombiner(n, kf, key, values) ==
    IF AnyKeyRaises(kf, values) THEN Raise("TypeError")
    ELSE Ok(key, L(Nsmallest(n, values, kf)))

\* ------------------------------------------------------------ mean classes
\* total, count = imap(sum, izip(*values)) needs exactly two columns
\* mutant: divides by the number of (sum, count) pairs
MeanReducerPerPair(key, values) ==
    LET columns == Izip(values)
    IN  IF Len(columns) # 2 THEN Raise("ValueError")
        ELSE Ok(key, Frac(PySum(columns[1]), Len(values)))

MeanReducer(key, values) ==
    LET columns == Izip(values)
    IN  IF Len(columns) # 2 THEN Raise("ValueError")
        ELSE LET total == PySum(columns[1])
                 count == PySum(columns[2])
             IN  IF count = 0 THEN Raise("ZeroDivisionError")
                 ELSE Ok(key, Frac(total, count))

MeanCombiner(key, values) == Ok(key, <<PySum(values), Len(values)>>)

\* ----------------------------------------------------------- stats classes
\* columns.next() on no column raises StopIteration, which ends the
\* generator without a record and without an error
Sqrt(x) == [sqrt |-> x]
Zero == [sqrt |-> Frac(0, 1)]

\* s0, s1, s2, minimum, maximum of StatsReducer, given its five columns
StatsTotals(columns) ==
    [s0 |-> PySum(columns[1]), s1 |-> PySum(columns[2]), s2 |-> PySum(columns[3]),
     minimum |-> PyMin(columns[4]), maximum |-> PyMax(columns[5])]

\* mutant: the standard deviation is computed whatever s0 is
StatsReducerNoGuard(key, values) ==
    LET columns == Izip(values)
    IN  IF Len(columns) < 5 THEN Silent
        ELSE LET t == StatsTotals(columns)
             IN  IF t.s0 = 0 \/ t.s0 = 1 THEN Raise("ZeroDivisionError")
                 ELSE Ok(key, <<t.s0, Frac(t.s1, t.s0),
                                Sqrt(Frac(t.s0 * t.s2 - t.s1 * t.s1, t.s0 * (t.s0 - 1))),
                                t.minimum, t.maximum>>)

StatsReducer(key, values) ==
    LET columns == Izip(values)
    IN  IF Len(columns) < 5 THEN Silent
        ELSE LET t == StatsTotals(columns)
             IN  IF t.s0 = 0 THEN Raise("ZeroDivisionError")
                 ELSE LET mean == Frac(t.s1, t.s0)
                          stddev == IF t.s0 > 1
                                    THEN Sqrt(Frac(t.s0 * t.s2 - t.s1 * t.s1,
                                                   t.s0 * (t.s0 - 1)))
                                    ELSE Zero
                      IN  Ok(key, <<t.s0, mean, stddev, t.minimum, t.maximum>>)

\* mutant: the third component is the square of the sum
StatsCombinerSquareOfSum(key, values) ==
    IF values = << >> THEN Silent
    ELSE Ok(key, <<Len(values), PySum(values), PySum(values) * PySum(values),
                   PyMin(values), PyMax(values)>>)

StatsCombiner(key, values) ==
    LET rows == [i \in 1 .. Len(values) |->
                    <<1, values[i], values[i] * values[i], values[i], values[i]>>]
        columns == Izip(rows)
    IN  IF Len(columns) < 5 THEN Silent
        ELSE Ok(key, <<PySum(columns[1]), PySum(columns[2]), PySum(columns[3]),
                       PyMin(columns[4]), PyMax(columns[5])>>)

\* -------------------------------------------------------- identity classes
IdentityMapper(key, value) == Ok(key, value)

\* mutant: a value equal to the one before it is not yielded again
IdentityReducerDedup(key, values) ==
    LET keep == { i \in 1 .. Len(values) : i = 1 \/ values[i] # values[i - 1] }
        nth(m) == CHOOSE i \in keep : Cardinality({ j \in keep : j <= i }) = m
    IN  [err |-> "none",
         emits |-> [m \in 1 .. Cardinality(keep) |-> <<key, values[nth(m)]>>]]

IdentityReducer(key, values) ==
    [err |-> "none", emits |-> [i \in 1 .. Len(values) |-> <<key, values[i]>>]]

\* ------------------------------------------------------------------ the job
\* One job over the values of one key: the execution environment hands the
\* raw values to the combiner in consecutive batches, may hand combiner
\* output to the combiner again or to an intermediate run of the reducer,
\* and ends with the reducer over everything that is left.
VARIABLES
    agg,         \* which classes the job was built with ("call": no job)
    n,           \* self.n of the selection classes
    kf,          \* self.key of the selection classes
    key,         \* the key
    raw,         \* the raw values of the key, in arrival order
    pos,         \* how many of them have been handed on
    parts,       \* values waiting for the reducer, in order
    merged,      \* the reducer ran as an intermediate stage
    out,         \* the records of the final reducer call
    pc,          \* "run", "done", or "failed" (a call raised)
    call         \* one call of one class on its own: class, values, outcome

vars == <<agg, n, kf, key, raw, pos, parts, merged, out, pc, call>>

\* most lists-in-lists the environment hands back to a combiner
MaxNest == 1

RECURSIVE Depth(_)
Depth(x) ==
    IF x.d = 0 THEN 0
    ELSE IF x.v = << >> THEN 1
    ELSE 1 + PyMax([i \in 1 .. Len(x.v) |-> Depth(x.v[i])])

CallCombiner(values) ==
    CASE agg = "sum" -> SumReducer(key, values)
      [] agg = "sums" -> SumsReducer(key, values)
      [] agg = "nlargest" -> NLargestCombiner(n, kf, key, values)
      [] agg = "nsmallest" -> NSmallestCombiner(n, kf, key, values)
      [] agg = "mean" -> MeanCombiner(key, values)
      [] agg = "stats" -> StatsCombiner(key, values)

CallReducer(values) ==
    CASE agg = "sum" -> SumReducer(key, values)
      [] agg = "sums" -> SumsReducer(key, values)
      [] agg = "nlargest" -> NLargestReducer(n, kf, key, values)
      [] agg = "nsmallest" -> NSmallestReducer(n, kf, key, values)
      [] agg = "mean" -> MeanReducer(key, values)
      [] agg = "stats" -> StatsReducer(key, values)
      [] agg = "identity" -> IdentityReducer(key, values)

\* the values of the records a call yielded, as the shuffle groups them
Values(emits) == [i \in 1 .. Len(emits) |-> emits[i][2]]

Replace(seq, i, j, new) == SubSeq(seq, 1, i - 1) \o new \o SubSeq(seq, j + 1, Len(seq))

NoCall == [op |-> "none", n |-> 1, kf |-> "None", values |-> << >>, result |-> Silent]

\* a job built with the classes in A
JobInit(A) ==
    /\ agg \in A
    /\ key \in IF agg = "identity" THEN Keys ELSE { "k1" }
    /\ n \in IF agg \in Selections THEN 1 .. MaxN ELSE { 1 }
    /\ kf \in IF agg \in Selections THEN KeyFns ELSE { "None" }
    /\ raw \in IF agg = "sums" THEN SeqsUpTo(TupleVals, MaxLen)
               ELSE IF agg \in Selections
                    THEN { Ints(s) : s \in SeqsUpTo(Vals, MaxLen) }
                    ELSE SeqsUpTo(Vals, MaxLen)
    /\ pos = 0
    /\ parts = << >>
    /\ merged = FALSE
    /\ out = << >>
    /\ pc = "run"
    /\ call = NoCall

\* the mapper of an identity job passes one raw record on
Map ==
    /\ pc = "run"
    /\ agg = "identity"
    /\ pos < Len(raw)
    /\ parts' = parts \o Values(IdentityMapper(key, raw[pos + 1]).emits)
    /\ pos' = pos + 1
    /\ UNCHANGED <<agg, n, kf, key, raw, merged, out, pc, call>>

\* the combiner runs on the next b raw values (b = 0: an empty batch)
Combine(b) ==
    /\ pc = "run"
    /\ agg \notin { "identity", "call" }
    /\ pos + b <= Len(raw)
    /\ Len(parts) + 1 + (IF pos + b < Len(raw) THEN 1 ELSE 0) <= MaxParts
    /\ LET r == CallCombiner(SubSeq(raw, pos + 1, pos + b))
       IN  /\ parts' = parts \o Values(r.emits)
           /\ pc' = IF r.err = "none" THEN "run" ELSE "failed"
    /\ pos' = pos + b
    /\ UNCHANGED <<agg, n, kf, key, raw, merged, out, call>>

\* the selection combiner runs again, on the outputs i .. j of earlier calls
Recombine(i, j) ==
    /\ pc = "run"
    /\ agg \in Selections
    /\ 1 <= i /\ i <= j /\ j <= Len(parts)
    /\ \A m \in i .. j : Depth(parts[m]) <= MaxNest
    /\ LET r == CallCombiner(SubSeq(parts, i, j))
       IN  /\ parts' = Replace(parts, i, j, Values(r.emits))
           /\ pc' = IF r.err = "none" THEN "run" ELSE "failed"
    /\ UNCHANGED <<agg, n, kf, key, raw, pos, merged, out, call>>

\* an intermediate stage: the reducer runs on the partial results i .. j and
\* its output takes their place
Merge(i, j) ==
    /\ pc = "run"
    /\ agg \in { "sum", "sums", "nlargest", "nsmallest" }
    /\ 1 <= i /\ i <= j /\ j <= Len(parts)
    /\ LET r == CallReducer(SubSeq(parts, i, j))
       IN  /\ parts' = Replace(parts, i, j, Values(r.emits))
           /\ pc' = IF r.err = "none" THEN "run" ELSE "failed"
    /\ merged' = TRUE
    /\ UNCHANGED <<agg, n, kf, key, raw, pos, out, call>>

\* the final reducer call, over everything that reached it
Reduce ==
    /\ pc = "run"
    /\ agg # "call"
    /\ pos = Len(raw)
    /\ LET r == CallReducer(parts)
       IN  /\ out' = r.emits
           /\ pc' = IF r.err = "none" THEN "done" ELSE "failed"
    /\ UNCHANGED <<agg, n, kf, key, raw, pos, parts, merged, call>>

\* selection jobs
InitSelect == JobInit(Selections)
NextSelect ==
    \/ \E b \in 0 .. MaxLen : Combine(b)
    \/ \E i \in 1 .. MaxParts, j \in 1 .. MaxParts : Merge(i, j)
    \/ Reduce
SpecSelect == InitSelect /\ [][NextSelect]_vars

\* selection jobs in which the environment also runs the combiner on
\* combiner output; every batch holds a value
NextRecombine ==
    \/ \E b \in 1 .. MaxLen : Combine(b)
    \/ \E i \in 1 .. MaxParts, j \in 1 .. MaxParts : Recombine(i, j)
    \/ \E i \in 1 .. MaxParts, j \in 1 .. MaxParts : Merge(i, j)
    \/ Reduce
SpecRecombine == InitSelect /\ [][NextRecombine]_vars

\* sum jobs, SumReducer being its own combiner
InitSum == JobInit({ "sum", "sums" })
NextSum ==
    \/ \E b \in 0 .. MaxLen : Combine(b)
    \/ \E i \in 1 .. MaxParts, j \in 1 .. MaxParts : Merge(i, j)
    \/ Reduce
SpecSum == InitSum /\ [][NextSum]_vars

\* mean and stats jobs: a combiner, then the reducer
InitMoments == JobInit({ "mean", "stats" })
NextMoments ==
    \/ \E b \in 0 .. MaxLen : Combine(b)
    \/ Reduce
SpecMoments == InitMoments /\ [][NextMoments]_vars

\* identity jobs
InitIdentity == JobInit({ "identity" })
NextIdentity ==
    \/ Map
    \/ Reduce
SpecIdentity == InitIdentity /\ [][NextIdentity]_vars

\* ------------------------------------------------------- one call on its own
\* One class called once on values of the shapes its callers pass: raw
\* values for a combiner, lists as the combiners yield them for a selection
\* reducer, tuples for SumsReducer.
SelectionCombiners == { "NLargestCombiner", "NSmallestCombiner" }
SelectionReducers == { "NLargestReducer", "NSmallestReducer" }
\* what the combiner of a selection reducer, built with the same n and key,
\* can yield
Lists(op, m, f) ==
    { IF op = "NLargestReducer" THEN L(Nlargest(m, Ints(s), f))
                                ELSE L(Nsmallest(m, Ints(s), f)) :
        s \in SeqsUpTo(Vals, MaxLen) }
Pending(op, m, f, values) ==
    [op |-> op, n |-> m, kf |-> f, values |-> values, result |-> Silent]

CombinerCalls ==
    { Pending(op, m, f, Ints(s)) :
        op \in SelectionCombiners, m \in 1 .. MaxN, f \in KeyFns,
        s \in SeqsUpTo(Vals, MaxLen) }
ReducerCalls(op, m, f) ==
    { Pending(op, m, f, v) : v \in SeqsUpTo(Lists(op, m, f), MaxArgs) }
MomentCalls ==
    { Pending(op, 1, "None", v) :
        op \in { "MeanCombiner", "StatsCombiner" }, v \in SeqsUpTo(Vals, MaxLen) }
SumsCalls ==
    { Pending("SumsReducer", 1, "None", v) : v \in SeqsUpTo(TupleVals, MaxLen) }

Apply(c) ==
    CASE c.op = "NLargestCombiner" -> NLargestCombiner(c.n, c.kf, key, c.values)
      [] c.op = "NSmallestCombiner" -> NSmallestCombiner(c.n, c.kf, key, c.values)
      [] c.op = "NLargestReducer" -> NLargestReducer(c.n, c.kf, key, c.values)
      [] c.op = "NSmallestReducer" -> NSmallestReducer(c.n, c.kf, key, c.values)
      [] c.op = "MeanCombiner" -> MeanCombiner(key, c.values)
      [] c.op = "StatsCombiner" -> StatsCombiner(key, c.values)
      [] c.op = "SumsReducer" -> SumsReducer(key, c.values)

InitCalls ==
    /\ agg = "call"
    /\ key = "k1"
    /\ n = 1
    /\ kf = "None"
    /\ raw = << >>
    /\ pos = 0
    /\ parts = << >>
    /\ merged = FALSE
    /\ out = << >>
    /\ pc = "run"
    /\ \/ call \in CombinerCalls
       \/ \E op \in SelectionReducers, m \in 1 .. MaxN, f \in KeyFns :
              call \in ReducerCalls(op, m, f)
       \/ call \in MomentCalls
       \/ call \in SumsCalls

Call ==
    /\ agg = "call"
    /\ pc = "run"
    /\ call' = [call EXCEPT !.result = Apply(call)]
    /\ pc' = IF Apply(call).err = "none" THEN "done" ELSE "failed"
    /\ UNCHANGED <<agg, n, kf, key, raw, pos, parts, merged, out>>

NextCalls == Call
SpecCalls == InitCalls /\ [][NextCalls]_vars

\* ------------------------------------------------------------- properties
\* What the properties compare the classes with, written without the
\* operators of the model: totals as a fold from the right, extremes and
\* multiplicities by quantification.
RECURSIVE Total(_)
Total(s) == IF s = << >> THEN 0 ELSE Head(s) + Total(Tail(s))

Column(rows, c) == [i \in 1 .. Len(rows) |-> rows[i][c]]
Squares(s) == [i \in 1 .. Len(s) |-> s[i] * s[i]]
Least(s) == CHOOSE x \in { s[i] : i \in 1 .. Len(s) } : \A i \in 1 .. Len(s) : x <= s[i]
Greatest(s) == CHOOSE x \in { s[i] : i \in 1 .. Len(s) } : \A i \in 1 .. Len(s) : x >= s[i]
Count(x, s) == Cardinality({ i \in 1 .. Len(s) : s[i] = x })
Prefix == SubSeq(raw, 1, pos)
\* the batch behind the i-th partial state, its counts being in component c:
\* the raw values after those the earlier partial states count
Batch(i, c) ==
    SubSeq(raw, Total(SubSeq(Column(parts, c), 1, i - 1)) + 1,
                Total(SubSeq(Column(parts, c), 1, i)))

\* the rank of an int item under the key function f
Rank(f, x) == IF f = "abs" THEN Abs(x.v) ELSE x.v
\* a goes strictly before b in the order of the class
Before(largest, f, a, b) ==
    IF largest THEN Rank(f, a) > Rank(f, b) ELSE Rank(f, a) < Rank(f, b)
AllInts(s) == \A i \in 1 .. Len(s) : s[i].d = 0

\* res is the best m of the int items all, best first
IsBestOf(largest, f, m, res, all) ==
    /\ AllInts(res)
    /\ Len(res) = Min2(m, Len(all))
    /\ \A i, j \in 1 .. Len(res) : i < j => ~Before(largest, f, res[j], res[i])
    /\ \A i \in 1 .. Len(res) : Count(res[i], res) <= Count(res[i], all)
    /\ \A i \in 1 .. Len(all) :
          Count(all[i], res) < Count(all[i], all)
              => \A j \in 1 .. Len(res) : ~Before(largest, f, all[i], res[j])

C2_CombinerReapplied ==
    (pc = "done" /\ agg \in Selections) => out = CallCombiner(raw).emits

\* C3: in a mean job every pair waiting for the reducer is (sum, count) of
\* its batch, the batches being consecutive runs of the raw values handed
\* on, and for a non-empty sequence the reducer does not raise and yields the
\* sum of all raw values over their count.
C3_MeanClosure ==
    agg = "mean" =>
        /\ Total(Column(parts, 2)) = pos
        /\ \A i \in 1 .. Len(parts) :
              parts[i] = <<Total(Batch(i, 2)), Len(Batch(i, 2))>>
        /\ raw # << >> => pc # "failed"
        /\ (pc = "done" /\ raw # << >>) =>
              /\ Len(out) = 1
              /\ out[1][1] = key
              /\ out[1][2].den > 0
              /\ out[1][2].num * Len(raw) = out[1][2].den * Total(raw)

\* two batches of different sizes and a mean that is no integer
C3_Witness ==
    /\ pc = "done"
    /\ agg = "mean"
    /\ Len(parts) = 2
    /\ parts[1][2] >= 1
    /\ parts[2][2] >= 1
    /\ parts[1][2] # parts[2][2]
    /\ out[1][2].den # 1

\* C4: in a stats job, once all raw values of a non-empty sequence are
\* handed on, every 5-tuple waiting for the reducer is (n, sum, sum of
\* squares, min, max) of its non-empty batch, the batches being consecutive
\* runs of the raw values, and the reducer's n, sum, sum of squares, min and
\* max are those of the whole sequence; its record carries that n, min and
\* max and the mean sum / n.
C4_StatsClosure ==
    (agg = "stats" /\ pos = Len(raw) /\ raw # << >>) =>
        /\ parts # << >>
        /\ Total(Column(parts, 1)) = Len(raw)
        /\ \A i \in 1 .. Len(parts) :
              /\ parts[i][1] >= 1
              /\ parts[i] = <<Len(Batch(i, 1)), Total(Batch(i, 1)),
                              Total(Squares(Batch(i, 1))),
                              Least(Batch(i, 1)), Greatest(Batch(i, 1))>>
        /\ StatsTotals(Izip(parts)) =
              [s0 |-> Len(raw), s1 |-> Total(raw), s2 |-> Total(Squares(raw)),
               minimum |-> Least(raw), maximum |-> Greatest(raw)]
        /\ pc # "failed"
        /\ pc = "done" =>
              /\ Len(out) = 1
              /\ out[1][1] = key
              /\ out[1][2][1] = Len(raw)
              /\ out[1][2][2].num * Len(raw) = out[1][2][2].den * Total(raw)
              /\ out[1][2][4] = Least(raw)
              /\ out[1][2][5] = Greatest(raw)

\* two non-empty batches, values that differ
C4_Witness ==
    /\ pc = "done"
    /\ agg = "stats"
    /\ Len(parts) >= 2
    /\ Least(raw) # Greatest(raw)
    /\ Total(raw) # 0

\* C5: in a sum job the partial sums waiting for the reducer add up to the
\* sum of the raw values handed on, through any intermediate run of
\* SumReducer, and the final record is the sum of all raw values.
C5_SumClosure ==
    agg = "sum" =>
        /\ Total(parts) = Total(Prefix)
        /\ pc # "failed"
        /\ pc = "done" => out = << <<key, Total(raw)>> >>

\* three raw values, an intermediate run of SumReducer, two partial sums left
C5_Witness ==
    /\ pc = "done"
    /\ agg = "sum"
    /\ merged
    /\ Len(raw) = MaxLen
    /\ Len(parts) >= 2
    /\ Total(raw) # 0
    /\ Total(raw) # Len(parts)

\* C6: MeanCombiner and StatsCombiner called with no values raise: they
\* yield no record and signal an error.
C6_EmptyCombineRaises ==
    (pc # "run" /\ call.op \in { "MeanCombiner", "StatsCombiner" } /\ call.values = << >>)
        => (call.result.err # "none" /\ call.result.emits = << >>)

\* C7: SumsReducer called with tuples of different lengths raises instead
\* of yielding a tuple.
C7_ArityMismatchRaises ==
    (/\ pc # "run"
     /\ call.op = "SumsReducer"
     /\ \E i, j \in 1 .. Len(call.values) : Len(call.values[i]) # Len(call.values[j]))
        => (call.result.err # "none" /\ call.result.emits = << >>)

\* how many elements a selection call was given, and how often x is among
\* them: the values themselves for a combiner, the elements of the lists
\* for a reducer
GivenLen(c) ==
    IF c.op \in SelectionCombiners THEN Len(c.values)
    ELSE Total([i \in 1 .. Len(c.values) |-> Len(c.values[i].v)])
GivenCount(c, x) ==
    IF c.op \in SelectionCombiners THEN Count(x, c.values)
    ELSE Total([i \in 1 .. Len(c.values) |-> Count(x, c.values[i].v)])

\* C8: a selection combiner or reducer call yields one record whose
\* sequence has exactly min(n, number of elements given) elements, so never
\* more than n, each of them as often at most as it was given.
C8_SelectionBound ==
    call.op \in SelectionCombiners \cup SelectionReducers =>
        /\ pc # "failed"
        /\ pc = "done" =>
              /\ Len(call.result.emits) = 1
              /\ call.result.emits[1][2].d = 1
              /\ LET res == call.result.emits[1][2].v
                 IN  /\ Len(res) = Min2(call.n, GivenLen(call))
                     /\ Len(res) <= call.n
                     /\ \A i \in 1 .. Len(res) :
                           Count(res[i], res) <= GivenCount(call, res[i])

\* a reducer given fewer elements than n, in two lists, yields them all
C8_Witness ==
    /\ pc = "done"
    /\ call.op = "NLargestReducer"
    /\ Len(call.values) = 2
    /\ GivenLen(call) = 1
    /\ call.n = 2
    /\ Len(call.result.emits[1][2].v) = 1

\* C9: in an identity job the mapper passes every raw record on as it is,
\* and the reducer yields one (key, value) record per value, under the key,
\* in order.
C9_Passthrough ==
    agg = "identity" =>
        /\ parts = Prefix
        /\ pc # "failed"
        /\ pc = "done" =>
              /\ Len(out) = Len(raw)
              /\ \A i \in 1 .. Len(raw) : out[i] = <<key, raw[i]>>

\* a value that occurs twice in a row, under the second key
C9_Witness ==
    /\ pc = "done"
    /\ agg = "identity"
    /\ key = "k2"
    /\ Len(raw) = MaxLen
    /\ raw[1] = raw[2]
    /\ raw[2] # raw[3]

\* C10: a stats job over a single raw value v does not raise and yields
\* (1, v, 0, v, v).
C10_SingleObservation ==
    (agg = "stats" /\ Len(raw) = 1) =>
        /\ pc # "failed"
        /\ pc = "done" =>
              out = << <<key, <<1, [num |-> raw[1], den |-> 1],
                                [sqrt |-> [num |-> 0, den |-> 1]], raw[1], raw[1]>> >> >>

\* the single value is not 0
C10_Witness ==
    /\ pc = "done"
    /\ agg = "stats"
    /\ Len(raw) = 1
    /\ raw[1] # 0
    /\ Len(out) = 1

=============================================================================
